---------------------------- MODULE Spec2Model ----------------------------
(***************************************************************************)
(* A model of chalisha-reporter: the Playwright reporter ChalishaReporter  *)
(* (constructor, onBegin, onTestEnd, onEnd, onExit, cleanDirectory,        *)
(* captureNestedSteps) and the AzureBlobStorageUploader it publishes with. *)
(*                                                                         *)
(* Encodings                                                               *)
(*   - a path is a sequence of segments; the string it stands for is the   *)
(*     segments written with a separator between them, so that "a//b" is   *)
(*     <<"a", "", "b">> and differs from "a/b";                            *)
(*   - an optional value (a field that may be undefined) is a sequence of  *)
(*     length 0 (undefined) or 1 (the value);                              *)
(*   - the disk is a record [dirs, files]: the set of directories and a    *)
(*     function from the path of each regular file to its contents;        *)
(*   - a JSON text is the tree of its tokens (objects as the sequence of   *)
(*     their members), written by the stringify operators and read back    *)
(*     by JsonParse;                                                       *)
(*   - uploader.inFlight is the list of uploads started and not settled.   *)
(***************************************************************************)
EXTENDS Integers, Sequences, FiniteSets, TLC

VARIABLES
    pc,           \* "new" before the constructor ran, "ready" between callbacks,
                  \* "exiting" while onExit awaits the upload, "done" once it returned
    disk,         \* the local file system
    options,      \* ChalishaReporterOptions given to the constructor
    hostApp,      \* the host application's package.json (optional), read by the constructor
    uuidsIssued,  \* how many identifiers uuidv4() has returned so far
    runId,
    counts,       \* passedCount, failedCount, skippedCount, timedOutCount, interruptedCount
    totalTests,
    testResults,
    browserInfo,
    raised,       \* the callback whose last invocation threw ("" when none did)
    delivered,    \* history: the status of every onTestEnd event received, in order
    copyLog,      \* history: every fs.copyFileSync performed, in order
    begun,        \* history: onBegin has been called
    ended,        \* history: onEnd has run
    exited,       \* history: onExit has been called
    uploader,     \* the AzureBlobStorageUploader of onExit and its progress
    remote,       \* history: every call made on the remote store, in order
    platformSep,  \* path.sep of the platform the reporter runs on
    disk0,        \* history: the disk the run started from
    stepsIn,      \* an optional runner step tree (input of captureNestedSteps)
    stepsOut      \* optional: captureNestedSteps(stepsIn), once it has been computed

vars == <<pc, disk, options, hostApp, uuidsIssued, runId, counts, totalTests,
          testResults, browserInfo, raised, delivered, copyLog, begun, ended, exited,
          uploader, remote, platformSep, disk0, stepsIn, stepsOut>>

---------------------------------------------------------------------------
(* Bounds of the model.                                                    *)

MaxTests == 2        \* onTestEnd events delivered in one run
MaxStepNodes == 7    \* nodes of a generated step tree
MaxStepWidth == 2    \* children of one step of a generated step tree

---------------------------------------------------------------------------
(* Optional values and paths.                                              *)

Absent == <<>>
Some(v) == <<v>>
IsPresent(o) == Len(o) > 0
Get(o) == o[1]

IsPrefix(p, q) == Len(p) <= Len(q) /\ SubSeq(q, 1, Len(p)) = p
IsChild(d, p) == Len(p) = Len(d) + 1 /\ IsPrefix(d, p)
Parent(p) == SubSeq(p, 1, Len(p) - 1)
BaseName(p) == p[Len(p)]
Prefixes(p) == { SubSeq(p, 1, n) : n \in 0..Len(p) }

RECURSIVE DropEmpty(_)
DropEmpty(p) ==
    IF p = <<>> THEN <<>>
    ELSE IF Head(p) = "" \/ Head(p) = "." THEN DropEmpty(Tail(p))
    ELSE <<Head(p)>> \o DropEmpty(Tail(p))

\* path.join(a, b): the segments of both, normalised (empty and "." segments
\* are dropped), written with the platform's separator.
PathJoin(a, b) == DropEmpty(a \o b)

\* path.resolve(this.projectRoot, ...): relative to the working directory,
\* which is the root of the modelled disk.
PathResolve(p) == DropEmpty(p)

\* path.extname of a file name, for the names the model uses.
PngFiles == { "shot.png", "gone.png", "x.png", "y.png", "b.png", "u1.png", "u2.png",
              "u3.png", "u4.png", "u5.png", "u6.png", "u7.png", "u8.png", "u9.png",
              "u10.png", "u11.png" }
ZipFiles == { "trace.zip", "z.zip", "u1.zip", "u2.zip", "u3.zip", "u4.zip", "u5.zip",
              "u6.zip", "u7.zip", "u8.zip", "u9.zip", "u10.zip", "u11.zip" }
ExtName(name) ==
    CASE name \in PngFiles -> ".png"
      [] name \in ZipFiles -> ".zip"
      [] name \in {"a.json", "report.json", "result.json"} -> ".json"
      [] name \in {"index.html"} -> ".html"
      [] name \in {"old.txt"} -> ".txt"
      [] name \in {"p.JPG"} -> ".JPG"
      [] name \in {"q.jpeg"} -> ".jpeg"
      [] OTHER -> ""

\* String.prototype.toLowerCase on the extensions above.
ToLowerCase(extension) == IF extension = ".JPG" THEN ".jpg" ELSE extension

---------------------------------------------------------------------------
(* The file system primitives the reporter uses.                           *)

Entries(d) == d.dirs \cup DOMAIN d.files
Exists(d, p) == p \in Entries(d)
ReadDir(d, dir) == { p \in Entries(d) : IsChild(dir, p) }

\* fs.mkdirSync(p, { recursive: true })
MkdirRecursive(d, p) == [d EXCEPT !.dirs = @ \cup Prefixes(p)]

\* fs.rmdirSync(p, { recursive: true })
RmdirRecursive(d, p) ==
    [dirs  |-> { q \in d.dirs : ~IsPrefix(p, q) },
     files |-> [q \in { f \in DOMAIN d.files : ~IsPrefix(p, f) } |-> d.files[q]]]

\* fs.unlinkSync(p)
Unlink(d, p) == [d EXCEPT !.files = [q \in DOMAIN d.files \ {p} |-> d.files[q]]]

\* fs.writeFileSync(p, content) and the write half of fs.copyFileSync
WriteFile(d, p, content) ==
    [d EXCEPT !.files = [q \in DOMAIN d.files \cup {p} |->
                            IF q = p THEN content ELSE d.files[q]]]

---------------------------------------------------------------------------
(* Configuration: the fields the constructor derives from its options.     *)

DefaultReportDir == <<"reports", "chalisha-reporter", "">>   \* 'reports/chalisha-reporter/'

ReportDir == IF IsPresent(options.reportDir) THEN Get(options.reportDir) ELSE DefaultReportDir
ReportFileName ==
    IF IsPresent(options.reportFileName) THEN Get(options.reportFileName) ELSE "report.json"
ResultFileName ==
    IF IsPresent(options.resultFileName) THEN Get(options.resultFileName) ELSE "result.json"

OutputDir == PathResolve(ReportDir)
DataDir == PathResolve(ReportDir \o <<"data">>)
ResultFilePath == PathResolve(ReportDir \o <<ResultFileName>>)
ReportFilePath == PathResolve(ReportDir \o <<ReportFileName>>)

NoCounts == [passed |-> 0, failed |-> 0, skipped |-> 0, timedOut |-> 0, interrupted |-> 0]

Bytes(b) == [bytes |-> b]

---------------------------------------------------------------------------
(* The disks a run can start from: the working directory holds the test    *)
(* artifacts of the runner and, possibly, a report directory left by an    *)
(* earlier run.                                                            *)

ArtifactFiles == { <<"test-results", "shot.png">>, <<"test-results", "trace.zip">> }

StaleFiles ==
    { OutputDir \o <<"result.json">>,
      OutputDir \o <<"old.txt">>,
      OutputDir \o <<"data", "x.png">>,
      OutputDir \o <<"data", "deep", "y.png">>,
      OutputDir \o <<"data", "deep", "er", "z.zip">> }

StaleEmptyDirs == { OutputDir \o <<"data", "void", "inner">> }

DiskOf(fileSet, dirSet) ==
    [dirs  |-> UNION { Prefixes(Parent(f)) : f \in fileSet } \cup UNION { Prefixes(q) : q \in dirSet },
     files |-> [f \in fileSet |-> Bytes(BaseName(f))]]

InitialDisks ==
    { DiskOf(ArtifactFiles, {}),                    \* no report directory, no parent
      DiskOf(ArtifactFiles, {<<"reports">>}) }      \* the parent only
    \cup { DiskOf(ArtifactFiles \cup S, {OutputDir} \cup E) :
             S \in SUBSET StaleFiles, E \in SUBSET StaleEmptyDirs }

---------------------------------------------------------------------------
(* ChalishaReporter.cleanDirectory and the constructor.                    *)

\* The iteration with a plain fs.rmdirSync(fullPath), which removes only an
\* empty directory.
cleanEntryShallow(d, fullPath) ==
    IF fullPath \in d.dirs
    THEN IF ReadDir(d, fullPath) = {} THEN RmdirRecursive(d, fullPath) ELSE d
    ELSE Unlink(d, fullPath)

\* One iteration of the forEach of cleanDirectory, on the entry fullPath.
cleanEntry(d, fullPath) ==
    IF fullPath \in d.dirs            \* fs.lstatSync(fullPath).isDirectory()
    THEN RmdirRecursive(d, fullPath)
    ELSE Unlink(d, fullPath)

RECURSIVE cleanEach(_, _)
cleanEach(d, listing) ==
    IF listing = {} THEN d
    ELSE LET e == CHOOSE x \in listing : TRUE
         IN  cleanEach(cleanEntry(d, e), listing \ {e})

cleanDirectory(d, directoryPath) == cleanEach(d, ReadDir(d, directoryPath))

constructorDisk(d) ==
    IF ~Exists(d, OutputDir)
    THEN MkdirRecursive(d, OutputDir)
    ELSE cleanDirectory(d, OutputDir)

\* No AzureBlobStorageUploader has been constructed.
NoUploader ==
    [state |-> "None", runId |-> "", appName |-> "", containerName |-> "",
     localReportDir |-> <<>>, stack |-> <<>>, inFlight |-> Absent]

Configurations ==
    [reportDir : {Absent}, reportFileName : {Absent}, resultFileName : {Absent},
     containerName : {Absent},
     connectionString : {Absent, Some(""), Some("malformed"), Some("valid")}]

HostApps == { Absent, Some([name |-> Some("app")]) }

---------------------------------------------------------------------------
(* JavaScript's  a || b  on the optional fields the reporter reads.        *)

OrString(o, dflt) == IF IsPresent(o) /\ Get(o) # "" THEN Get(o) ELSE dflt
OrFalse(o) == IsPresent(o) /\ Get(o)
OrValue(o, dflt) == IF IsPresent(o) THEN Get(o) ELSE dflt

Put(f, k, v) == [x \in DOMAIN f \cup {k} |-> IF x = k THEN v ELSE f[x]]

\* process.cwd() as an absolute path, and path.relative(from, to) for a
\* `to` below `from`.
ProjectRoot == <<"", "work">>
PathRelative(from, to) ==
    IF IsPrefix(from, to) THEN SubSeq(to, Len(from) + 1, Len(to)) ELSE to

\* `${path.relative(this.projectRoot, location.file)}:${location.line}`, or ''
FormatLocation(loc) ==
    IF IsPresent(loc)
    THEN <<PathRelative(ProjectRoot, Get(loc).file), Get(loc).line>>
    ELSE <<>>

---------------------------------------------------------------------------
(* ChalishaReporter.onBegin                                                *)

browserContext(project) ==
    LET use == Get(project.use)
    IN  [name     |-> IF project.name # "" THEN project.name ELSE "unknown",
         headless |-> OrFalse(use.headless),
         viewport |-> OrValue(use.viewport, [width |-> 1280, height |-> 720]),
         isMobile |-> OrFalse(use.isMobile),
         hasTouch |-> OrFalse(use.hasTouch)]

\* config.projects.forEach(...): reading project.use.headless of a project
\* without `use` throws; the projects before it have been stored.
RECURSIVE storeProjects(_, _)
storeProjects(info, projects) ==
    IF projects = <<>> THEN [info |-> info, threw |-> FALSE]
    ELSE LET project == Head(projects)
         IN  IF ~IsPresent(project.use)
             THEN [info |-> info, threw |-> TRUE]
             ELSE storeProjects(Put(info, project.name, browserContext(project)),
                                Tail(projects))

onBegin(config, allTests) ==
    /\ pc = "ready"
    /\ totalTests' = allTests
    /\ begun' = TRUE
    /\ LET r == storeProjects(browserInfo, config.projects)
       IN  /\ browserInfo' = r.info
           /\ raised' = IF r.threw THEN "onBegin" ELSE ""
    /\ UNCHANGED <<pc, disk, options, hostApp, uuidsIssued, runId, counts, testResults,
                   delivered, copyLog, ended, exited, uploader, remote, platformSep,
                   disk0, stepsIn, stepsOut>>

---------------------------------------------------------------------------
(* ChalishaReporter.captureNestedSteps                                     *)

MaxLevels == 4

\* The recursion stopped one level too late (level > 4).
RECURSIVE captureNestedStepsLate(_, _)
captureNestedStepsLate(steps, level) ==
    IF ~IsPresent(steps) \/ Len(Get(steps)) = 0 \/ level > MaxLevels
    THEN <<>>
    ELSE [i \in 1..Len(Get(steps)) |->
            LET step == Get(steps)[i]
            IN  [name     |-> step.title,
                 duration |-> step.duration,
                 location |-> FormatLocation(step.location),
                 steps    |-> captureNestedStepsLate(Some(OrValue(step.steps, <<>>)), level + 1),
                 error    |-> IsPresent(step.error)]]

RECURSIVE captureNestedSteps(_, _)
captureNestedSteps(steps, level) ==
    IF ~IsPresent(steps) \/ Len(Get(steps)) = 0 \/ level >= MaxLevels
    THEN <<>>
    ELSE [i \in 1..Len(Get(steps)) |->
            LET step == Get(steps)[i]
            IN  [name     |-> step.title,
                 duration |-> step.duration,
                 location |-> FormatLocation(step.location),
                 steps    |-> captureNestedSteps(Some(OrValue(step.steps, <<>>)), level + 1),
                 error    |-> IsPresent(step.error)]]

---------------------------------------------------------------------------
(* ChalishaReporter.onTestEnd                                              *)

\* The text of the identifiers uuidv4() issues, and `${uuid}${extension}`.
UuidText == <<"u1", "u2", "u3", "u4", "u5", "u6", "u7", "u8", "u9", "u10", "u11">>
PngNames == <<"u1.png", "u2.png", "u3.png", "u4.png", "u5.png", "u6.png", "u7.png",
              "u8.png", "u9.png", "u10.png", "u11.png">>
ZipNames == <<"u1.zip", "u2.zip", "u3.zip", "u4.zip", "u5.zip", "u6.zip", "u7.zip",
              "u8.zip", "u9.zip", "u10.zip", "u11.zip">>

uuidv4(n) == UuidText[n]

Concat(uuid, extension) ==
    LET n == CHOOSE k \in 1..Len(UuidText) : UuidText[k] = uuid
    IN  CASE extension = ".png" -> PngNames[n]
          [] extension = ".zip" -> ZipNames[n]
          [] OTHER -> uuid

\* The switch without its case 'timedOut'.
countStatusNoTimedOut(c, status) ==
    CASE status = "passed"      -> [c EXCEPT !.passed = @ + 1]
      [] status = "failed"      -> [c EXCEPT !.failed = @ + 1]
      [] status = "skipped"     -> [c EXCEPT !.skipped = @ + 1]
      [] status = "interrupted" -> [c EXCEPT !.interrupted = @ + 1]
      [] OTHER -> c

\* The switch with the break of case 'passed' missing: it falls through
\* into case 'failed'.
countStatusFallThrough(c, status) ==
    CASE status = "passed"      -> [c EXCEPT !.passed = @ + 1, !.failed = @ + 1]
      [] status = "failed"      -> [c EXCEPT !.failed = @ + 1]
      [] status = "skipped"     -> [c EXCEPT !.skipped = @ + 1]
      [] status = "timedOut"    -> [c EXCEPT !.timedOut = @ + 1]
      [] status = "interrupted" -> [c EXCEPT !.interrupted = @ + 1]
      [] OTHER -> c

\* The switch on result.status.
countStatus(c, status) ==
    CASE status = "passed"      -> [c EXCEPT !.passed = @ + 1]
      [] status = "failed"      -> [c EXCEPT !.failed = @ + 1]
      [] status = "skipped"     -> [c EXCEPT !.skipped = @ + 1]
      [] status = "timedOut"    -> [c EXCEPT !.timedOut = @ + 1]
      [] status = "interrupted" -> [c EXCEPT !.interrupted = @ + 1]
      [] OTHER -> c

\* test.parent?.parent?.title || 'unknown'
browserNameOf(test) ==
    IF IsPresent(test.parent) /\ IsPresent(Get(test.parent).parent)
    THEN OrString(Some(Get(Get(test.parent).parent).title), "unknown")
    ELSE "unknown"

\* this.browserInfo[browserName] || {}   (the empty object is Absent)
browserOf(info, test) ==
    IF browserNameOf(test) \in DOMAIN info THEN Some(info[browserNameOf(test)]) ELSE Absent

\* The testInfo object; test.annotations is read without a default.
testInfoOf(test) ==
    [title          |-> test.title,
     location       |-> FormatLocation(test.location),
     tags           |-> [i \in 1..Len(Get(test.annotations)) |-> Get(test.annotations)[i].type],
     retries        |-> test.retries,
     expectedStatus |-> test.expectedStatus,
     fileName       |-> IF IsPresent(test.location) THEN Some(Get(test.location).file) ELSE Absent,
     suiteTitle     |-> IF IsPresent(test.parent) THEN Some(Get(test.parent).title) ELSE Absent,
     testId         |-> test.id]

\* The file name built from the run's identifier instead of a fresh one.
newFileNameOfRun(n, fileExtension) == Concat(runId, fileExtension)

\* `${uuidv4()}${fileExtension}` for the n-th identifier issued.
newFileNameOf(n, fileExtension) == Concat(uuidv4(n), fileExtension)

\* The callback with the copy inside a try whose catch returns the
\* attachment as received.
RECURSIVE relocateSwallow(_, _)
relocateSwallow(st, attachments) ==
    IF attachments = <<>> \/ st.threw THEN st
    ELSE LET attachment == Head(attachments)
         IN  IF IsPresent(attachment.path)
             THEN LET source == Get(attachment.path)
                      fileExtension == ExtName(BaseName(source))
                      issued == st.issued + 1
                      newFileName == newFileNameOf(issued, fileExtension)
                      d1 == IF ~Exists(st.disk, DataDir)
                            THEN MkdirRecursive(st.disk, DataDir)
                            ELSE st.disk
                      newFilePath == PathJoin(ReportDir, <<"data", newFileName>>)
                  IN  IF source \in DOMAIN d1.files /\ Parent(newFilePath) \in d1.dirs
                      THEN relocateSwallow(
                             [disk   |-> WriteFile(d1, newFilePath, d1.files[source]),
                              issued |-> issued,
                              out    |-> Append(st.out,
                                           [attachment EXCEPT
                                              !.path = Some(newFilePath),
                                              !.url = Some(<<".">> \o newFilePath)]),
                              log    |-> Append(st.log, [from |-> source, to |-> newFilePath]),
                              threw  |-> FALSE],
                             Tail(attachments))
                      ELSE relocateSwallow(
                             [st EXCEPT !.disk = d1, !.issued = issued,
                                        !.out = Append(@, attachment)],
                             Tail(attachments))
             ELSE relocateSwallow([st EXCEPT !.out = Append(@, attachment)], Tail(attachments))

\* The callback with the data directory created for every attachment,
\* with or without a path.
RECURSIVE relocateEager(_, _)
relocateEager(st, attachments) ==
    IF attachments = <<>> \/ st.threw THEN st
    ELSE LET attachment == Head(attachments)
         IN  IF IsPresent(attachment.path)
             THEN LET source == Get(attachment.path)
                      fileExtension == ExtName(BaseName(source))
                      issued == st.issued + 1
                      newFileName == newFileNameOf(issued, fileExtension)
                      d1 == IF ~Exists(st.disk, DataDir)
                            THEN MkdirRecursive(st.disk, DataDir)
                            ELSE st.disk
                      newFilePath == PathJoin(ReportDir, <<"data", newFileName>>)
                  IN  IF source \in DOMAIN d1.files /\ Parent(newFilePath) \in d1.dirs
                      THEN relocateEager(
                             [disk   |-> WriteFile(d1, newFilePath, d1.files[source]),
                              issued |-> issued,
                              out    |-> Append(st.out,
                                           [attachment EXCEPT
                                              !.path = Some(newFilePath),
                                              !.url = Some(<<".">> \o newFilePath)]),
                              log    |-> Append(st.log, [from |-> source, to |-> newFilePath]),
                              threw  |-> FALSE],
                             Tail(attachments))
                      ELSE [st EXCEPT !.disk = d1, !.issued = issued, !.threw = TRUE]
             ELSE relocateEager([st EXCEPT !.out = Append(@, attachment),
                                           !.disk = MkdirRecursive(@, DataDir)],
                                Tail(attachments))

\* The callback of result.attachments.map, applied from left to right. The
\* accumulator st holds the disk, the identifiers issued, the attachments
\* returned so far, the copies made and whether fs.copyFileSync threw.
RECURSIVE relocate(_, _)
relocate(st, attachments) ==
    IF attachments = <<>> \/ st.threw THEN st
    ELSE LET attachment == Head(attachments)
         IN  IF IsPresent(attachment.path)
             THEN LET source == Get(attachment.path)
                      fileExtension == ExtName(BaseName(source))
                      issued == st.issued + 1
                      newFileName == newFileNameOf(issued, fileExtension)
                      d1 == IF ~Exists(st.disk, DataDir)
                            THEN MkdirRecursive(st.disk, DataDir)
                            ELSE st.disk
                      newFilePath == PathJoin(ReportDir, <<"data", newFileName>>)
                  IN  IF source \in DOMAIN d1.files /\ Parent(newFilePath) \in d1.dirs
                      THEN relocate(
                             [disk   |-> WriteFile(d1, newFilePath, d1.files[source]),
                              issued |-> issued,
                              out    |-> Append(st.out,
                                           [attachment EXCEPT
                                              !.path = Some(newFilePath),
                                              !.url = Some(<<".">> \o newFilePath)]),
                              log    |-> Append(st.log, [from |-> source, to |-> newFilePath]),
                              threw  |-> FALSE],
                             Tail(attachments))
                      ELSE [st EXCEPT !.disk = d1, !.issued = issued, !.threw = TRUE]
             ELSE relocate([st EXCEPT !.out = Append(@, attachment)], Tail(attachments))

\* The entry put in front of the list (unshift) instead of behind it.
unshiftEntry(list, entry) == <<entry>> \o list

\* this.testResults.push(entry)
pushEntry(list, entry) == Append(list, entry)

entryOf(test, result, updatedAttachments) ==
    [test          |-> testInfoOf(test),
     steps         |-> captureNestedSteps(result.steps, 0),
     attachments   |-> updatedAttachments,
     status        |-> result.status,
     duration      |-> result.duration,
     errors        |-> result.errors,
     retry         |-> result.retry,
     parallelIndex |-> result.parallelIndex,
     startTime     |-> result.startTime,
     workerIndex   |-> result.workerIndex,
     error         |-> result.error,
     browser       |-> browserOf(browserInfo, test)]

onTestEnd(test, result) ==
    /\ pc = "ready"
    /\ Len(delivered) < MaxTests
    /\ delivered' = Append(delivered, result.status)
    /\ counts' = countStatus(counts, result.status)
    /\ IF ~IsPresent(test.annotations) \/ ~IsPresent(result.attachments)
       THEN \* test.annotations.map / result.attachments.map of undefined throws
            /\ raised' = "onTestEnd"
            /\ UNCHANGED <<disk, uuidsIssued, copyLog, testResults>>
       ELSE LET r == relocate([disk |-> disk, issued |-> uuidsIssued, out |-> <<>>,
                               log |-> copyLog, threw |-> FALSE],
                              Get(result.attachments))
            IN  /\ disk' = r.disk
                /\ uuidsIssued' = r.issued
                /\ copyLog' = r.log
                /\ IF r.threw
                   THEN raised' = "onTestEnd" /\ UNCHANGED testResults
                   ELSE /\ raised' = ""
                        /\ testResults' = pushEntry(testResults, entryOf(test, result, r.out))
    /\ UNCHANGED <<pc, options, hostApp, runId, totalTests, browserInfo, begun, ended, exited,
                   uploader, remote, platformSep, disk0, stepsIn, stepsOut>>

---------------------------------------------------------------------------
(* ChalishaReporter.onEnd                                                  *)

\* A JSON text is modelled by the tree of its tokens: an object is the
\* sequence of its members in the order written, an array the sequence of
\* its items, a string, a number or a boolean its literal.
JStr(s) == [t |-> "string", v |-> s]
JNum(n) == [t |-> "number", v |-> n]
JBool(b) == [t |-> "boolean", v |-> b]
JArr(items) == [t |-> "array", items |-> items]

Member(key, value) == [key |-> key, value |-> value]

\* JSON.stringify leaves out a property whose value is undefined.
RECURSIVE DefinedMembers(_)
DefinedMembers(members) ==
    IF members = <<>> THEN <<>>
    ELSE (IF IsPresent(Head(members).value)
          THEN <<Member(Head(members).key, Get(Head(members).value))>>
          ELSE <<>>) \o DefinedMembers(Tail(members))

JObj(members) == [t |-> "object", members |-> DefinedMembers(members)]

\* Date.prototype.toISOString (and toJSON, which JSON.stringify calls).
ToISOString(date) ==
    CASE date.time = 0 -> "1970-01-01T00:00:00.000Z"
      [] date.time = 1 -> "1970-01-01T00:00:00.001Z"
      [] OTHER -> "1970-01-01T00:00:00.002Z"

\* new Date() in the constructor
ReporterStartTime == [time |-> 0]

\* The value of the last member with the given key.
RECURSIVE LastMember(_, _)
LastMember(members, key) ==
    IF members[Len(members)].key = key
    THEN members[Len(members)].value
    ELSE LastMember(SubSeq(members, 1, Len(members) - 1), key)

\* JSON.parse: an object becomes the map of its keys (the last member of a
\* key wins), an array a list, a literal its value.
RECURSIVE JsonParse(_)
JsonParse(node) ==
    CASE node.t = "object" ->
           [k \in { node.members[i].key : i \in DOMAIN node.members } |->
              JsonParse(LastMember(node.members, k))]
      [] node.t = "array" -> [i \in DOMAIN node.items |-> JsonParse(node.items[i])]
      [] OTHER -> node.v

\* JSON.stringify of the values an entry is made of.
RECURSIVE stringifySteps(_)
stringifySteps(steps) ==
    JArr([i \in DOMAIN steps |->
            JObj(<<Member("name", Some(JStr(steps[i].name))),
                   Member("duration", Some(JNum(steps[i].duration))),
                   Member("location", Some(JStr(steps[i].location))),
                   Member("steps", Some(stringifySteps(steps[i].steps))),
                   Member("error", Some(JBool(steps[i].error)))>>)])

stringifyOptional(o) == IF IsPresent(o) THEN Some(JStr(Get(o))) ELSE Absent

stringifyAttachment(attachment) ==
    JObj(<<Member("name", Some(JStr(attachment.name))),
           Member("contentType", Some(JStr(attachment.contentType))),
           Member("path", stringifyOptional(attachment.path)),
           Member("url", stringifyOptional(attachment.url))>>)

stringifyTestInfo(info) ==
    JObj(<<Member("title", Some(JStr(info.title))),
           Member("location", Some(JStr(info.location))),
           Member("tags", Some(JArr([i \in DOMAIN info.tags |-> JStr(info.tags[i])]))),
           Member("retries", Some(JNum(info.retries))),
           Member("expectedStatus", Some(JStr(info.expectedStatus))),
           Member("fileName", stringifyOptional(info.fileName)),
           Member("suiteTitle", stringifyOptional(info.suiteTitle)),
           Member("testId", Some(JStr(info.testId)))>>)

stringifyError(error) == JObj(<<Member("message", Some(JStr(error.message)))>>)

\* The browser context; the empty object {} (Absent) has no member.
stringifyBrowser(browser) ==
    IF IsPresent(browser)
    THEN LET b == Get(browser)
         IN  JObj(<<Member("name", Some(JStr(b.name))),
                    Member("headless", Some(JBool(b.headless))),
                    Member("viewport",
                           Some(JObj(<<Member("width", Some(JNum(b.viewport.width))),
                                       Member("height", Some(JNum(b.viewport.height)))>>))),
                    Member("isMobile", Some(JBool(b.isMobile))),
                    Member("hasTouch", Some(JBool(b.hasTouch)))>>)
    ELSE JObj(<<>>)

stringifyEntry(entry) ==
    JObj(<<Member("test", Some(stringifyTestInfo(entry.test))),
           Member("steps", Some(stringifySteps(entry.steps))),
           Member("attachments",
                  Some(JArr([i \in DOMAIN entry.attachments |->
                               stringifyAttachment(entry.attachments[i])]))),
           Member("status", Some(JStr(entry.status))),
           Member("duration", Some(JNum(entry.duration))),
           Member("errors",
                  Some(JArr([i \in DOMAIN entry.errors |-> stringifyError(entry.errors[i])]))),
           Member("retry", Some(JNum(entry.retry))),
           Member("parallelIndex", Some(JNum(entry.parallelIndex))),
           Member("startTime", Some(JStr(ToISOString(entry.startTime)))),
           Member("workerIndex", Some(JNum(entry.workerIndex))),
           Member("error", IF IsPresent(entry.error)
                           THEN Some(stringifyError(Get(entry.error)))
                           ELSE Absent),
           Member("browser", Some(stringifyBrowser(entry.browser)))>>)

resultContentOf(result, elapsed) ==
    [runId            |-> runId,
     startTime        |-> ToISOString(ReporterStartTime),
     duration         |-> elapsed,
     status           |-> result.status,
     totalTests       |-> totalTests,
     passedTests      |-> counts.passed,
     failedTests      |-> counts.failed,
     skippedTests     |-> counts.skipped,
     timedOutTests    |-> counts.timedOut,
     interruptedTests |-> counts.interrupted]

\* The members of the summary, in the order of the object literal.
summaryMembers(resultContent) ==
    <<Member("runId", Some(JStr(resultContent.runId))),
      Member("startTime", Some(JStr(resultContent.startTime))),
      Member("duration", Some(JNum(resultContent.duration))),
      Member("status", Some(JStr(resultContent.status))),
      Member("totalTests", Some(JNum(resultContent.totalTests))),
      Member("passedTests", Some(JNum(resultContent.passedTests))),
      Member("failedTests", Some(JNum(resultContent.failedTests))),
      Member("skippedTests", Some(JNum(resultContent.skippedTests))),
      Member("timedOutTests", Some(JNum(resultContent.timedOutTests))),
      Member("interruptedTests", Some(JNum(resultContent.interruptedTests)))>>

\* The report written with the entries of the first event only.
reportContentOfFirst(resultContent) ==
    [k \in DOMAIN resultContent \cup {"tests"} |->
        IF k = "tests" THEN (IF testResults = <<>> THEN <<>> ELSE <<testResults[1]>>)
        ELSE resultContent[k]]

\* { ...resultContent, tests: this.testResults }
reportContentOf(resultContent) ==
    [k \in DOMAIN resultContent \cup {"tests"} |->
        IF k = "tests" THEN testResults ELSE resultContent[k]]

\* JSON.stringify(resultContent, null, 2) and JSON.stringify(reportContent, null, 2)
stringifyResult(resultContent) == JObj(summaryMembers(resultContent))
stringifyReport(reportContent) ==
    JObj(summaryMembers(reportContent)
         \o <<Member("tests",
                     Some(JArr([i \in DOMAIN reportContent.tests |->
                                  stringifyEntry(reportContent.tests[i])])))>>)

\* The contents of a file holding a JSON text.
JsonText(node) == [json |-> node]

\* onEnd with the report directory cleaned before the two files are written.
onEndCleaning(result, elapsed) ==
    /\ pc = "ready"
    /\ LET resultContent == resultContentOf(result, elapsed)
           d0 == cleanDirectory(disk, OutputDir)
           d1 == WriteFile(d0, ResultFilePath, JsonText(stringifyResult(resultContent)))
       IN  disk' = WriteFile(d1, ReportFilePath,
                             JsonText(stringifyReport(reportContentOf(resultContent))))
    /\ ended' = TRUE
    /\ raised' = ""
    /\ UNCHANGED <<pc, options, hostApp, uuidsIssued, runId, counts, totalTests,
                   testResults, browserInfo, delivered, copyLog, begun, exited, uploader, remote,
                   platformSep, disk0, stepsIn, stepsOut>>

\* elapsed is new Date().getTime() - this.startTime.getTime()
onEnd(result, elapsed) ==
    /\ pc = "ready"
    /\ LET resultContent == resultContentOf(result, elapsed)
           d1 == WriteFile(disk, ResultFilePath, JsonText(stringifyResult(resultContent)))
       IN  disk' = WriteFile(d1, ReportFilePath,
                             JsonText(stringifyReport(reportContentOf(resultContent))))
    /\ ended' = TRUE
    /\ raised' = ""
    /\ UNCHANGED <<pc, options, hostApp, uuidsIssued, runId, counts, totalTests,
                   testResults, browserInfo, delivered, copyLog, begun, exited, uploader, remote,
                   platformSep, disk0, stepsIn, stepsOut>>

---------------------------------------------------------------------------
(* AzureBlobStorageUploader                                                *)

\* A remote path is a text: its segments and the separator written between
\* them. path.join writes the platform's separator.
Text(sep, segs) == [sep |-> sep, segs |-> segs]
PathJoinText(segs, name) == Text(platformSep, DropEmpty(segs \o <<name>>))

\* .replace(/\\/g, '/')
ToForwardSlashes(t) == Text(IF t.sep = "\\" THEN "/" ELSE t.sep, t.segs)

\* path.join(remotePath, file.name).replace(/\\/g, '/')
blobPathOf(remoteSegs, name) == ToForwardSlashes(PathJoinText(remoteSegs, name))

getContentType(fileName) ==
    LET extension == ToLowerCase(ExtName(fileName))
    IN  CASE extension = ".html" -> "text/html"
          [] extension = ".json" -> "application/json"
          [] extension = ".txt"  -> "text/plain"
          [] extension = ".png"  -> "image/png"
          [] extension \in {".jpg", ".jpeg"} -> "image/jpeg"
          [] OTHER -> "application/octet-stream"

\* `chalisha-reporter/${this.appName}/${this.runId}`
remoteRootOf(appName, id) == <<"chalisha-reporter", appName, id>>

\* One activation of uploadDirectoryToBlobStorage: the directory, its remote
\* path and the entries of fs.readdirSync not yet visited by the for loop.
frameOf(directoryPath, remoteSegs) ==
    [dir |-> directoryPath, remote |-> remoteSegs, todo |-> ReadDir(disk, directoryPath)]

\* The constructor of AzureBlobStorageUploader throws on a missing connection
\* string, and BlobServiceClient.fromConnectionString on a malformed one.
constructorThrows(connectionString) ==
    connectionString = "" \/ connectionString = "malformed"

\* The guard left out: the uploader is constructed whatever the options say.
shouldUploadAlways(azureConnectionString) == TRUE

\* if (azureConnectionString)
shouldUpload(azureConnectionString) == azureConnectionString # ""

\* onExit up to its first await: the guard on the connection string and
\* new AzureBlobStorageUploader(...), which is outside any try block.
onExit ==
    /\ pc = "ready"
    /\ ~exited
    /\ exited' = TRUE
    /\ LET azureConnectionString == OrString(options.connectionString, "")
           azureContainerName == OrString(options.containerName, "reports")
       IN  IF ~shouldUpload(azureConnectionString)
           THEN /\ raised' = ""
                /\ pc' = "done"
                /\ UNCHANGED uploader
           ELSE IF constructorThrows(azureConnectionString)
           THEN /\ raised' = "onExit"
                /\ pc' = "done"
                /\ UNCHANGED uploader
           ELSE /\ raised' = ""
                /\ pc' = "exiting"
                /\ uploader' =
                     [state          |-> "Idle",
                      runId          |-> runId,
                      appName        |-> IF IsPresent(hostApp)
                                         THEN OrString(Get(hostApp).name, "")
                                         ELSE "",
                      containerName  |-> azureContainerName,
                      localReportDir |-> PathResolve(ReportDir),
                      stack          |-> <<>>,
                      inFlight       |-> Absent]
    /\ UNCHANGED <<disk, options, hostApp, uuidsIssued, runId, counts, totalTests,
                   testResults, browserInfo, delivered, copyLog, begun, ended, remote,
                   platformSep, disk0, stepsIn, stepsOut>>

UploaderFrame == <<pc, disk, options, hostApp, uuidsIssued, runId, counts, totalTests,
                   testResults, browserInfo, raised, delivered, copyLog, begun, ended, exited,
                   platformSep, disk0, stepsIn, stepsOut>>

\* uploadPlaywrightReport: the call of containerClient.createIfNotExists
ensureContainer ==
    /\ pc = "exiting"
    /\ uploader.state = "Idle"
    /\ uploader' = [uploader EXCEPT !.state = "ContainerEnsuring"]
    /\ remote' = Append(remote, [op |-> "createIfNotExists",
                                 container |-> uploader.containerName,
                                 access |-> "container"])
    /\ UNCHANGED UploaderFrame

\* createIfNotExists resolves (ok) or rejects; on success the mirror of the
\* report directory starts with its fs.readdirSync.
containerEnsured(ok) ==
    /\ pc = "exiting"
    /\ uploader.state = "ContainerEnsuring"
    /\ uploader' =
         IF ok
         THEN [uploader EXCEPT
                 !.state = "Uploading",
                 !.stack = <<frameOf(uploader.localReportDir,
                                     remoteRootOf(uploader.appName, uploader.runId))>>]
         ELSE [uploader EXCEPT !.state = "Failed"]
    /\ UNCHANGED remote
    /\ UNCHANGED UploaderFrame

\* The iteration with uploadData not awaited: the loop goes on to the next
\* entry while the upload is in flight.
visitEntryNoAwait(file) ==
    /\ pc = "exiting"
    /\ uploader.state = "Uploading"
    /\ uploader.stack # <<>>
    /\ LET top == Head(uploader.stack)
           rest == Tail(uploader.stack)
           localFilePath == PathJoin(top.dir, <<BaseName(file)>>)
           blobPath == blobPathOf(top.remote, BaseName(file))
           popped == <<[top EXCEPT !.todo = @ \ {file}]>> \o rest
       IN  /\ file \in top.todo
           /\ IF file \in disk.dirs          \* file.isDirectory()
              THEN /\ uploader' = [uploader EXCEPT
                                     !.stack = <<frameOf(localFilePath, blobPath.segs)>> \o popped]
                   /\ UNCHANGED remote
              ELSE LET call == [op          |-> "uploadData",
                                blob        |-> blobPath,
                                contentType |-> getContentType(BaseName(file)),
                                body        |-> disk.files[localFilePath]]
                   IN  /\ uploader' = [uploader EXCEPT !.stack = popped,
                                                       !.inFlight = Append(@, call)]
                       /\ remote' = Append(remote, call)
    /\ UNCHANGED UploaderFrame

\* One iteration of the for loop of the innermost activation, on `file`;
\* uploader.inFlight lists the uploads started and not yet settled.
visitEntry(file) ==
    /\ pc = "exiting"
    /\ uploader.state = "Uploading"
    /\ uploader.stack # <<>>
    /\ ~IsPresent(uploader.inFlight)
    /\ LET top == Head(uploader.stack)
           rest == Tail(uploader.stack)
           localFilePath == PathJoin(top.dir, <<BaseName(file)>>)
           blobPath == blobPathOf(top.remote, BaseName(file))
           popped == <<[top EXCEPT !.todo = @ \ {file}]>> \o rest
       IN  /\ file \in top.todo
           /\ IF file \in disk.dirs          \* file.isDirectory()
              THEN /\ uploader' = [uploader EXCEPT
                                     !.stack = <<frameOf(localFilePath, blobPath.segs)>> \o popped]
                   /\ UNCHANGED remote
              ELSE LET call == [op          |-> "uploadData",
                                blob        |-> blobPath,
                                contentType |-> getContentType(BaseName(file)),
                                body        |-> disk.files[localFilePath]]
                   IN  /\ uploader' = [uploader EXCEPT !.stack = popped,
                                                       !.inFlight = Append(@, call)]
                       /\ remote' = Append(remote, call)
    /\ UNCHANGED UploaderFrame

\* blockBlobClient.uploadData resolves (ok) or rejects.
uploadSettled(ok) ==
    /\ pc = "exiting"
    /\ uploader.state = "Uploading"
    /\ IsPresent(uploader.inFlight)
    /\ uploader' = IF ok
                   THEN [uploader EXCEPT !.inFlight = Tail(@)]
                   ELSE [uploader EXCEPT !.inFlight = Tail(@), !.state = "Failed"]
    /\ UNCHANGED remote
    /\ UNCHANGED UploaderFrame

\* The mirror declared complete as soon as one activation returns, with the
\* entries of the enclosing directories still to visit.
directoryDoneEarly ==
    /\ pc = "exiting"
    /\ uploader.state = "Uploading"
    /\ ~IsPresent(uploader.inFlight)
    /\ uploader.stack # <<>>
    /\ Head(uploader.stack).todo = {}
    /\ uploader' = [uploader EXCEPT !.stack = <<>>, !.state = "Done"]
    /\ UNCHANGED remote
    /\ UNCHANGED UploaderFrame

\* The for loop of the innermost activation is exhausted: it returns.
directoryDone ==
    /\ pc = "exiting"
    /\ uploader.state = "Uploading"
    /\ ~IsPresent(uploader.inFlight)
    /\ uploader.stack # <<>>
    /\ Head(uploader.stack).todo = {}
    /\ uploader' = [uploader EXCEPT
                      !.stack = Tail(@),
                      !.state = IF Tail(uploader.stack) = <<>> THEN "Done" ELSE @]
    /\ UNCHANGED remote
    /\ UNCHANGED UploaderFrame

\* The return of onExit with the entries released once the upload is over.
exitReturnsReleasing ==
    /\ pc = "exiting"
    /\ uploader.state \in {"Done", "Failed"}
    /\ pc' = "done"
    /\ raised' = ""
    /\ testResults' = <<>>
    /\ UNCHANGED <<disk, options, hostApp, uuidsIssued, runId, counts, totalTests,
                   browserInfo, delivered, copyLog, begun, ended, exited, uploader,
                   remote, platformSep, disk0, stepsIn, stepsOut>>

\* uploadPlaywrightReport returns (after its try or its catch) and with it
\* onExit: nothing is rethrown.
exitReturns ==
    /\ pc = "exiting"
    /\ uploader.state \in {"Done", "Failed"}
    /\ pc' = "done"
    /\ raised' = ""
    /\ UNCHANGED <<disk, options, hostApp, uuidsIssued, runId, counts, totalTests,
                   testResults, browserInfo, delivered, copyLog, begun, ended, exited, uploader,
                   remote, platformSep, disk0, stepsIn, stepsOut>>

---------------------------------------------------------------------------
(* What the runner delivers.                                               *)

Chromium ==
    [name |-> "chromium",
     use  |-> Some([headless |-> Some(TRUE), viewport |-> Absent,
                    isMobile |-> Absent, hasTouch |-> Absent])]
Mobile ==
    [name |-> "mobile",
     use  |-> Some([headless |-> Absent, viewport |-> Some([width |-> 390, height |-> 844]),
                    isMobile |-> Some(TRUE), hasTouch |-> Some(TRUE)])]
BareProject == [name |-> "bare", use |-> Absent]

RunnerConfigs == { [projects |-> <<Chromium>>], [projects |-> <<Chromium, Mobile>>] }
SparseConfigs == { [projects |-> <<Chromium, BareProject, Mobile>>] }
DeclaredTotals == {1, 3}

FullTest ==
    [title          |-> "logs in",
     location       |-> Some([file |-> ProjectRoot \o <<"tests", "a.spec.ts">>, line |-> 7]),
     annotations    |-> Some(<<[type |-> "smoke"]>>),
     retries        |-> 0,
     expectedStatus |-> "passed",
     id             |-> "t1",
     parent         |-> Some([title |-> "a.spec.ts",
                              parent |-> Some([title |-> "chromium"])])]

SparseTests ==
    { [FullTest EXCEPT !.location = Absent],
      [FullTest EXCEPT !.annotations = Absent],
      [FullTest EXCEPT !.parent = Absent],
      [FullTest EXCEPT !.parent = Some([title |-> "a.spec.ts", parent |-> Absent])] }

Shot  == [name |-> "screenshot", contentType |-> "image/png",
          path |-> Some(<<"test-results", "shot.png">>), url |-> Absent]
Trace == [name |-> "trace", contentType |-> "application/zip",
          path |-> Some(<<"test-results", "trace.zip">>), url |-> Absent]
Gone  == [name |-> "screenshot", contentType |-> "image/png",
          path |-> Some(<<"test-results", "gone.png">>), url |-> Absent]
Inline == [name |-> "note", contentType |-> "text/plain",
           path |-> Absent, url |-> Some("https://ci/note")]

LeafStep(title) ==
    [title |-> title, duration |-> 1, location |-> Absent, steps |-> Absent, error |-> Absent]
SmallSteps ==
    <<[LeafStep("goto") EXCEPT !.steps = Some(<<LeafStep("wait")>>)],
      [LeafStep("click") EXCEPT !.error = Some("boom")]>>

ResultOf(status, attachments, steps) ==
    [status        |-> status,
     duration      |-> 12,
     errors        |-> <<>>,
     retry         |-> 0,
     parallelIndex |-> 0,
     startTime     |-> [time |-> 1],
     workerIndex   |-> 0,
     error         |-> Absent,
     attachments   |-> attachments,
     steps         |-> steps]

RunnerStatuses == {"passed", "failed", "skipped", "timedOut", "interrupted"}
DeliveredStatuses == RunnerStatuses \cup {"flaky"}

RunnerResults ==
    { ResultOf(s, Some(<<>>), Absent) : s \in DeliveredStatuses }
    \cup { ResultOf("passed", Some(<<Shot, Shot>>), Some(SmallSteps)),
           ResultOf("failed", Some(<<Inline, Trace>>), Absent),
           ResultOf("failed", Some(<<Shot, Gone>>), Absent) }

SparseResults ==
    { ResultOf("passed", Absent, Some(SmallSteps)),
      ResultOf("passed", Some(<<>>), Absent) }

FullStatuses == {"passed", "failed"}
Elapsed == {40}

\* The entries the for loop of the innermost activation may visit next:
\* fs.readdirSync returns them in an order the file system chooses.
Listing == IF uploader.stack # <<>> THEN Head(uploader.stack).todo ELSE {}

\* A file system that lists every directory in one fixed order.
FirstListed == IF Listing = {} THEN {} ELSE { CHOOSE file \in Listing : TRUE }

---------------------------------------------------------------------------
(* The run of a reporter.                                                  *)

InitReporter ==
    /\ pc = "new"
    /\ uuidsIssued = 0
    /\ runId = ""
    /\ counts = NoCounts
    /\ totalTests = 0
    /\ testResults = <<>>
    /\ browserInfo = [x \in {} |-> Absent]
    /\ raised = ""
    /\ delivered = <<>>
    /\ copyLog = <<>>
    /\ begun = FALSE
    /\ ended = FALSE
    /\ exited = FALSE
    /\ uploader = NoUploader
    /\ remote = <<>>
    /\ disk0 = disk
    /\ stepsIn = Absent
    /\ stepsOut = Absent

StaleDisk == DiskOf(ArtifactFiles \cup StaleFiles, {OutputDir})

Init ==
    /\ options \in Configurations
    /\ hostApp = Some([name |-> Some("app")])
    /\ disk = StaleDisk
    /\ platformSep = "/"
    /\ InitReporter

\* new ChalishaReporter(options)
Construct ==
    /\ pc = "new"
    /\ pc' = "ready"
    /\ runId' = uuidv4(uuidsIssued + 1)
    /\ uuidsIssued' = uuidsIssued + 1
    /\ disk' = constructorDisk(disk)
    /\ UNCHANGED <<options, hostApp, counts, totalTests, testResults, browserInfo, raised,
                   delivered, copyLog, begun, ended, exited, uploader, remote, platformSep,
                   disk0, stepsIn, stepsOut>>

\* The steps of uploadPlaywrightReport on a file system that lists in a
\* fixed order.
Publish ==
    \/ ensureContainer
    \/ \E ok \in BOOLEAN : containerEnsured(ok)
    \/ \E file \in FirstListed : visitEntry(file)
    \/ \E ok \in BOOLEAN : uploadSettled(ok)
    \/ directoryDone
    \/ exitReturns

\* The runner's protocol: onBegin once, then the onTestEnd events, then
\* onEnd once, then onExit.
Next ==
    \/ Construct
    \/ /\ ~begun
       /\ \E config \in RunnerConfigs, n \in DeclaredTotals : onBegin(config, n)
    \/ /\ begun /\ ~ended
       /\ \E result \in RunnerResults : onTestEnd(FullTest, result)
    \/ /\ begun /\ ~ended
       /\ \E status \in FullStatuses, elapsed \in Elapsed : onEnd([status |-> status], elapsed)
    \/ /\ ended
       /\ onExit
    \/ Publish

Spec == Init /\ [][Next]_vars

---------------------------------------------------------------------------
(* Properties of the run under the runner's protocol (Spec).               *)

CountSum ==
    counts.passed + counts.failed + counts.skipped + counts.timedOut + counts.interrupted

OnlyRunnerStatuses == \A i \in DOMAIN delivered : delivered[i] \in RunnerStatuses

\* C1: as long as every status delivered is one of the five the runner
\* defines, the five counters sum to the number of onTestEnd events received
\* so far, whatever total onBegin declared.
C1_CountersSumToEvents == OnlyRunnerStatuses => CountSum = Len(delivered)

C1_Witness ==
    /\ Len(delivered) = 2
    /\ OnlyRunnerStatuses
    /\ delivered[1] # delivered[2]
    /\ "timedOut" \in {delivered[1], delivered[2]}
    /\ CountSum = 2
    /\ totalTests # 2

\* C2: an onTestEnd with one of the five statuses adds 1 to the counter of
\* that status and leaves the other four and totalTests as they were; with any
\* other status it leaves all five counters as they were.
C2_ExactlyTheMatchingCounter ==
    [][ \A s \in DeliveredStatuses :
          delivered' = Append(delivered, s) =>
             /\ totalTests' = totalTests
             /\ counts' = IF s \in RunnerStatuses
                          THEN [counts EXCEPT ![s] = @ + 1]
                          ELSE counts ]_vars

C2_Witness ==
    /\ delivered = <<"passed", "flaky">>
    /\ counts = [NoCounts EXCEPT !.passed = 1]
    /\ totalTests = 3

\* C4: no two copies made during a run have the same destination, whether
\* they were made by one onTestEnd or by two.
C4_DistinctDestinations ==
    \A i, j \in DOMAIN copyLog : i # j => copyLog[i].to # copyLog[j].to

C4_Witness ==
    /\ Len(delivered) = 2
    /\ Len(copyLog) = 4
    /\ \A i \in DOMAIN copyLog : copyLog[i].from = <<"test-results", "shot.png">>
    /\ Cardinality({ copyLog[i].to : i \in DOMAIN copyLog }) = 4
    /\ \A i \in DOMAIN copyLog : copyLog[i].to \in DOMAIN disk.files

NoConnectionString == OrString(options.connectionString, "") = ""

\* C7: with the connection string absent or empty, onExit returns without
\* constructing the uploader, without any call on the remote store and
\* without throwing.
C7_NoCredentialNoUpload ==
    (exited /\ NoConnectionString) =>
        /\ pc = "done"
        /\ uploader = NoUploader
        /\ remote = <<>>
        /\ raised # "onExit"

C7_Witness ==
    /\ exited
    /\ options.connectionString = Some("")
    /\ pc = "done"
    /\ testResults # <<>>

\* C8: no failure of the publication leaves onExit, and the publication
\* leaves the files written by onEnd as they are.
C8_PublishNeverRaises ==
    [][ (ended /\ exited') => (raised' # "onExit" /\ disk' = disk) ]_vars

---------------------------------------------------------------------------
(* The constructor on every disk a run can start from (SpecClean).         *)

InitClean ==
    /\ options \in [reportDir : {Absent, Some(<<"out", "report">>)},
                     reportFileName : {Absent}, resultFileName : {Absent},
                     containerName : {Absent}, connectionString : {Absent}]
    /\ hostApp = Absent
    /\ disk \in InitialDisks
    /\ platformSep = "/"
    /\ InitReporter

NextClean == Construct

SpecClean == InitClean /\ [][NextClean]_vars

Inside(dir, p) == IsPrefix(dir, p) /\ p # dir

\* C5: the constructor leaves the report directory present and empty: it
\* creates a missing one and removes everything inside an existing one,
\* however deeply nested.
C5_ReportDirEmptyAfterConstruction ==
    [][ (pc = "new" /\ pc' = "ready") =>
           /\ OutputDir \in disk'.dirs
           /\ \A p \in Entries(disk') : ~Inside(OutputDir, p) ]_vars

C5_Witness ==
    /\ pc = "ready"
    /\ (OutputDir \o <<"data", "deep", "er", "z.zip">>) \in DOMAIN disk0.files
    /\ (OutputDir \o <<"data", "void", "inner">>) \in disk0.dirs
    /\ (OutputDir \o <<"old.txt">>) \in DOMAIN disk0.files
    /\ OutputDir \in disk.dirs
    /\ ReadDir(disk, OutputDir) = {}

---------------------------------------------------------------------------
(* captureNestedSteps on the step trees a runner can build (SpecCapture).  *)

Children(step) == OrValue(step.steps, <<>>)

\* The index paths of the nodes of a runner step list, and the node at one.
RECURSIVE InPaths(_)
InPaths(list) ==
    UNION { {<<i>>} \cup { <<i>> \o p : p \in InPaths(Children(list[i])) } : i \in 1..Len(list) }

RECURSIVE InNode(_, _)
InNode(list, path) ==
    IF Len(path) = 1 THEN list[path[1]]
    ELSE InNode(Children(list[Head(path)]), Tail(path))

\* The same for a captured list.
RECURSIVE OutPaths(_)
OutPaths(list) ==
    UNION { {<<i>>} \cup { <<i>> \o p : p \in OutPaths(list[i].steps) } : i \in 1..Len(list) }

RECURSIVE OutNode(_, _)
OutNode(list, path) ==
    IF Len(path) = 1 THEN list[path[1]]
    ELSE OutNode(list[Head(path)].steps, Tail(path))

\* The runner's list with one more step, appended to the children of the
\* step at `path` (to the list itself when the path is empty).
RECURSIVE AddAt(_, _, _)
AddAt(list, path, step) ==
    IF path = <<>> THEN Append(list, step)
    ELSE LET parent == list[Head(path)]
         IN  [list EXCEPT ![Head(path)] =
                 [parent EXCEPT !.steps = Some(AddAt(Children(parent), Tail(path), step))]]

NewStep(k) ==
    [title    |-> k,
     duration |-> 10 * k,
     location |-> IF k % 2 = 1
                  THEN Some([file |-> ProjectRoot \o <<"tests", "a.spec.ts">>, line |-> k])
                  ELSE Absent,
     steps    |-> Absent,
     error    |-> IF k % 3 = 0 THEN Some("boom") ELSE Absent]

StepList == OrValue(stepsIn, <<>>)

Fanout(path) == IF path = <<>> THEN Len(StepList) ELSE Len(Children(InNode(StepList, path)))

InitCapture ==
    /\ options \in [reportDir : {Absent}, reportFileName : {Absent}, resultFileName : {Absent},
                     containerName : {Absent}, connectionString : {Absent}]
    /\ hostApp = Absent
    /\ disk = StaleDisk
    /\ platformSep = "/"
    /\ InitReporter

\* The runner records one more step.
addStep(path) ==
    /\ Cardinality(InPaths(StepList)) < MaxStepNodes
    /\ Fanout(path) < MaxStepWidth
    /\ stepsIn' = Some(AddAt(StepList, path, NewStep(Cardinality(InPaths(StepList)) + 1)))
    /\ stepsOut' = Absent
    /\ UNCHANGED <<pc, disk, options, hostApp, uuidsIssued, runId, counts, totalTests,
                   testResults, browserInfo, raised, delivered, copyLog, begun, ended, exited,
                   uploader, remote, platformSep, disk0>>

\* this.captureNestedSteps(result.steps)
capture ==
    /\ stepsOut' = Some(captureNestedSteps(stepsIn, 0))
    /\ UNCHANGED <<pc, disk, options, hostApp, uuidsIssued, runId, counts, totalTests,
                   testResults, browserInfo, raised, delivered, copyLog, begun, ended, exited,
                   uploader, remote, platformSep, disk0, stepsIn>>

\* The runner hands over a step list with no step in it.
emptyStepList ==
    /\ stepsIn = Absent
    /\ stepsIn' = Some(<<>>)
    /\ stepsOut' = Absent
    /\ UNCHANGED <<pc, disk, options, hostApp, uuidsIssued, runId, counts, totalTests,
                   testResults, browserInfo, raised, delivered, copyLog, begun, ended, exited,
                   uploader, remote, platformSep, disk0>>

NextCapture ==
    \/ emptyStepList
    \/ \E path \in InPaths(StepList) \cup {<<>>} : addStep(path)
    \/ capture

SpecCapture == InitCapture /\ [][NextCapture]_vars

\* C3: the captured tree holds exactly the nodes of the input at levels 0 to
\* 3, each at the position it had among its siblings and with its own
\* title, duration and error flag; a node at level 3 has no children; an
\* absent or empty list is captured as the empty list.
C3_TruncatedAtLevelFour ==
    IsPresent(stepsOut) =>
        LET out == Get(stepsOut)
        IN  /\ OutPaths(out) = { p \in InPaths(StepList) : Len(p) <= 4 }
            /\ \A p \in OutPaths(out) :
                  /\ OutNode(out, p).name = InNode(StepList, p).title
                  /\ OutNode(out, p).duration = InNode(StepList, p).duration
                  /\ OutNode(out, p).error = IsPresent(InNode(StepList, p).error)
                  /\ Len(OutNode(out, p).steps) = IF Len(p) = 4 THEN 0
                                                  ELSE Len(Children(InNode(StepList, p)))
            /\ (StepList = <<>> => out = <<>>)

C3_Witness ==
    /\ IsPresent(stepsOut)
    /\ \E p \in InPaths(StepList) : Len(p) = 6
    /\ \E p \in InPaths(StepList) : Len(p) = 4 /\ Children(InNode(StepList, p)) # <<>>
    /\ \E p \in OutPaths(Get(stepsOut)) : Len(p) = 4 /\ p[4] = 2
    /\ \A p \in OutPaths(Get(stepsOut)) : Len(p) <= 4

---------------------------------------------------------------------------
(* A runner that leaves fields out (SpecSparse).                           *)

InitSparse ==
    /\ options \in [reportDir : {Absent}, reportFileName : {Absent}, resultFileName : {Absent},
                     containerName : {Absent}, connectionString : {Absent}]
    /\ hostApp = Absent
    /\ disk = StaleDisk
    /\ platformSep = "/"
    /\ InitReporter

NextSparse ==
    \/ Construct
    \/ /\ ~begun
       /\ \E config \in RunnerConfigs \cup SparseConfigs : onBegin(config, 3)
    \/ /\ begun /\ ~ended
       /\ \E test \in SparseTests \cup {FullTest}, result \in SparseResults :
             onTestEnd(test, result)
    \/ /\ begun /\ ~ended
       /\ onEnd([status |-> "passed"], 40)

SpecSparse == InitSparse /\ [][NextSparse]_vars

\* C9: onBegin, onTestEnd and onEnd never throw on an input that lacks
\* fields, and every onTestEnd appends its entry.
C9_NeverRaisesOnSparseInput ==
    /\ raised \notin {"onBegin", "onTestEnd", "onEnd"}
    /\ Len(testResults) = Len(delivered)

---------------------------------------------------------------------------
(* Callbacks in any order (SpecLate): the reporter itself accepts every    *)
(* callback at any time after its construction.                            *)

LateResults ==
    { ResultOf("passed", Some(<<>>), Some(SmallSteps)),
      [ResultOf("failed", Some(<<Inline, Shot>>), Absent)
         EXCEPT !.error = Some([message |-> "boom"]),
                !.errors = <<[message |-> "boom"]>>] }

InitLate ==
    /\ options \in [reportDir : {Absent}, reportFileName : {Absent}, resultFileName : {Absent},
                     containerName : {Absent}, connectionString : {Absent, Some("valid")}]
    /\ hostApp = Some([name |-> Some("app")])
    /\ disk = StaleDisk
    /\ platformSep = "/"
    /\ InitReporter

NextLate ==
    \/ Construct
    \/ \E n \in DeclaredTotals : onBegin([projects |-> <<Chromium>>], n)
    \/ \E result \in LateResults : onTestEnd(FullTest, result)
    \/ \E status \in FullStatuses : onEnd([status |-> status], 40)
    \/ onExit
    \/ Publish

SpecLate == InitLate /\ [][NextLate]_vars

\* The status written by the last onEnd.
TerminalStatus(d) == JsonParse(d.files[ResultFilePath].json).status

RunUnchanged ==
    /\ runId' = runId
    /\ counts' = counts
    /\ totalTests' = totalTests
    /\ testResults' = testResults
    /\ TerminalStatus(disk') = TerminalStatus(disk)

\* C10 as stated: after onEnd no callback changes the run, and the run
\* identifier never changes after construction.
C10_ImmutableAfterEnd ==
    [][ /\ ended => RunUnchanged
        /\ pc # "new" => runId' = runId ]_vars

\* C10 as amended: after onEnd, onExit and the upload it awaits change
\* nothing of the run, and the run identifier never changes after
\* construction.
C10_ExitLeavesRunUnchanged ==
    [][ /\ (ended /\ (exited' # exited \/ pc = "exiting")) => RunUnchanged
        /\ pc # "new" => runId' = runId ]_vars

C10_Witness ==
    /\ ended
    /\ pc = "done"
    /\ uploader.state = "Done"
    /\ Len(testResults) = 2
    /\ CountSum = 2
    /\ runId = "u1"

---------------------------------------------------------------------------
(* The upload of report directories of any shape (SpecMirror).             *)

\* Files other tools leave in the report directory during the run.
ExternalFiles ==
    { OutputDir \o <<"a.json">>,
      OutputDir \o <<"sub", "b.png">>,
      OutputDir \o <<"sub", "deep", "p.JPG">> }

externalWrite(file) ==
    /\ pc = "ready"
    /\ file \notin DOMAIN disk.files
    /\ disk' = WriteFile(MkdirRecursive(disk, Parent(file)), file, Bytes(BaseName(file)))
    /\ UNCHANGED <<pc, options, hostApp, uuidsIssued, runId, counts, totalTests, testResults,
                   browserInfo, raised, delivered, copyLog, begun, ended, exited, uploader,
                   remote, platformSep, disk0, stepsIn, stepsOut>>

InitMirror ==
    /\ options \in [reportDir : {Absent}, reportFileName : {Absent}, resultFileName : {Absent},
                     containerName : {Absent}, connectionString : {Some("valid")}]
    /\ hostApp \in HostApps
    /\ disk = StaleDisk
    /\ platformSep \in {"/", "\\"}
    /\ InitReporter

\* The steps of uploadPlaywrightReport, with every listing order.
PublishInAnyOrder ==
    \/ ensureContainer
    \/ \E ok \in BOOLEAN : containerEnsured(ok)
    \/ \E file \in Listing : visitEntry(file)
    \/ \E ok \in BOOLEAN : uploadSettled(ok)
    \/ directoryDone
    \/ exitReturns

NextMirror ==
    \/ Construct
    \/ /\ ~begun
       /\ onBegin([projects |-> <<Chromium>>], 1)
    \/ /\ begun /\ ~ended
       /\ \E file \in ExternalFiles : externalWrite(file)
    \/ /\ begun /\ ~ended
       /\ onEnd([status |-> "passed"], 40)
    \/ /\ ended
       /\ onExit
    \/ PublishInAnyOrder

SpecMirror == InitMirror /\ [][NextMirror]_vars

Uploads == { i \in DOMAIN remote : remote[i].op = "uploadData" }

LocalFiles == { f \in DOMAIN disk.files : Inside(uploader.localReportDir, f) }

\* remotePrefix + '/' + the path of f relative to the report directory,
\* written with '/'.
ExpectedBlob(f) ==
    Text("/", remoteRootOf(uploader.appName, uploader.runId)
              \o SubSeq(f, Len(uploader.localReportDir) + 1, Len(f)))

\* C6: when the mirror has completed, every file below the report directory
\* has been uploaded exactly once, to the remote prefix followed by its
\* relative path with '/' separators, and nothing else has been uploaded.
C6_EveryFileOnceAtItsPath ==
    uploader.state = "Done" =>
        /\ \A f \in LocalFiles :
              Cardinality({ i \in Uploads : remote[i].blob = ExpectedBlob(f) }) = 1
        /\ \A i \in Uploads : \E f \in LocalFiles : remote[i].blob = ExpectedBlob(f)

---------------------------------------------------------------------------
(* The entry list under the runner's protocol (Spec).                      *)

\* C11: no step removes, reorders or modifies an entry already in the list;
\* an onTestEnd that returns appends exactly one entry, at the end, and that
\* entry records the event just delivered; every other step, an onTestEnd
\* that throws included, leaves the list as it is.
C11_EntriesAppendOnly ==
    [][ /\ IsPrefix(testResults, testResults')
        /\ (delivered' # delivered /\ raised' = "") =>
              /\ Len(testResults') = Len(testResults) + 1
              /\ testResults'[Len(testResults')].status = delivered'[Len(delivered')]
              /\ testResults'[Len(testResults')].test.testId = FullTest.id
        /\ (delivered' = delivered \/ raised' # "") => testResults' = testResults ]_vars

C11_Witness ==
    /\ Len(testResults) = 2
    /\ delivered = <<"skipped", "failed">>
    /\ testResults[1].status = "skipped"
    /\ testResults[2].status = "failed"
    /\ Len(testResults[2].attachments) = 2

---------------------------------------------------------------------------
(* The files written by onEnd, read back (SpecLate: onEnd may run again    *)
(* over the files of an earlier onEnd).                                    *)

FileChanged(p) ==
    /\ p \in DOMAIN disk'.files
    /\ (p \in DOMAIN disk.files => disk'.files[p] # disk.files[p])

\* Reading a property of a parsed object: undefined when the key is missing.
Read(obj, key) == IF key \in DOMAIN obj THEN Some(obj[key]) ELSE Absent

AttachmentReadsBackAs(parsed, attachment) ==
    /\ parsed.name = attachment.name
    /\ parsed.contentType = attachment.contentType
    /\ Read(parsed, "path") = attachment.path
    /\ Read(parsed, "url") = attachment.url

\* The parsed entry gives every field of the entry in memory: an undefined
\* field is missing, the start time is the ISO text of the Date.
EntryReadsBackAs(parsed, entry) ==
    /\ parsed.test.title = entry.test.title
    /\ parsed.test.location = entry.test.location
    /\ parsed.test.tags = entry.test.tags
    /\ parsed.test.retries = entry.test.retries
    /\ parsed.test.expectedStatus = entry.test.expectedStatus
    /\ Read(parsed.test, "fileName") = entry.test.fileName
    /\ Read(parsed.test, "suiteTitle") = entry.test.suiteTitle
    /\ parsed.test.testId = entry.test.testId
    /\ parsed.steps = entry.steps
    /\ Len(parsed.attachments) = Len(entry.attachments)
    /\ \A i \in DOMAIN entry.attachments :
          AttachmentReadsBackAs(parsed.attachments[i], entry.attachments[i])
    /\ parsed.status = entry.status
    /\ parsed.duration = entry.duration
    /\ parsed.errors = entry.errors
    /\ parsed.retry = entry.retry
    /\ parsed.parallelIndex = entry.parallelIndex
    /\ parsed.startTime = ToISOString(entry.startTime)
    /\ parsed.workerIndex = entry.workerIndex
    /\ Read(parsed, "error") = entry.error
    /\ IF IsPresent(entry.browser)
       THEN parsed.browser = Get(entry.browser)
       ELSE DOMAIN parsed.browser = {}

\* C12: a step that writes the result file or the report file is an onEnd;
\* after it the result file parses to the run identifier, the start time, a
\* duration, a status, the total and the five counters of the run, the
\* report file parses to the same summary plus the entries of the run in
\* their order, each entry with all its fields; each file holds nothing but
\* the document just written, and no other file has changed.
C12_FilesReadBackAsTheRun ==
    [][ (FileChanged(ResultFilePath) \/ FileChanged(ReportFilePath)) =>
          \A res \in {JsonParse(disk'.files[ResultFilePath].json)},
             rep \in {JsonParse(disk'.files[ReportFilePath].json)} :
              /\ ended'
              /\ res.runId = runId
              /\ res.startTime = ToISOString(ReporterStartTime)
              /\ res.duration \in Elapsed
              /\ res.status \in FullStatuses
              /\ res.totalTests = totalTests
              /\ res.passedTests = counts.passed
              /\ res.failedTests = counts.failed
              /\ res.skippedTests = counts.skipped
              /\ res.timedOutTests = counts.timedOut
              /\ res.interruptedTests = counts.interrupted
              /\ DOMAIN rep = DOMAIN res \cup {"tests"}
              /\ \A k \in DOMAIN res : rep[k] = res[k]
              /\ Len(rep.tests) = Len(testResults)
              /\ \A i \in DOMAIN testResults : EntryReadsBackAs(rep.tests[i], testResults[i])
              /\ \A f \in DOMAIN disk.files \ {ResultFilePath, ReportFilePath} :
                    f \in DOMAIN disk'.files /\ disk'.files[f] = disk.files[f] ]_vars

ParsedReport == JsonParse(disk.files[ReportFilePath].json)

C12_Witness ==
    /\ ended
    /\ ReportFilePath \in DOMAIN disk.files
    /\ Len(testResults) = 2
    /\ Len(ParsedReport.tests) = 2
    /\ ParsedReport.tests[1].status = "failed"
    /\ ParsedReport.tests[2].status = "passed"
    /\ "path" \notin DOMAIN ParsedReport.tests[1].attachments[1]
    /\ "path" \in DOMAIN ParsedReport.tests[1].attachments[2]
    /\ "error" \notin DOMAIN ParsedReport.tests[2]
    /\ Len(ParsedReport.tests[2].steps) = 2
    /\ ParsedReport.failedTests = 1
    /\ ParsedReport.passedTests = 1
    /\ JsonParse(disk.files[ResultFilePath].json).runId = runId

---------------------------------------------------------------------------
(* The remote root of a run (SpecMirror).                                  *)

\* The blob path uploadDirectoryToBlobStorage builds for the file at the
\* relative path rel, descending from the remote path remoteSegs.
RECURSIVE blobOf(_, _)
blobOf(remoteSegs, rel) ==
    IF Len(rel) = 1 THEN blobPathOf(remoteSegs, rel[1])
    ELSE blobOf(blobPathOf(remoteSegs, rel[1]).segs, Tail(rel))

\* Another run publishing into the same container: its application name,
\* its identifier and the relative paths of its files.
OtherAppNames == {"", "app", "other"}
OtherRunIds == { UuidText[n] : n \in 2..4 }
OtherRelPaths ==
    { <<"result.json">>, <<"report.json">>, <<"a.json">>, <<"data", "u2.png">>,
      <<"sub", "b.png">>, <<"sub", "deep", "p.JPG">> }

\* C13: every object uploaded has a path that starts with the three
\* segments 'chalisha-reporter', the application name (the empty string when
\* the name is missing) and the run identifier, written with '/'; and no
\* object another run would upload, under any application name, has the
\* path of an object this run uploaded.
C13_UnderTheRunRoot ==
    \A i \in Uploads :
       /\ remote[i].blob.sep = "/"
       /\ IsPrefix(remoteRootOf(uploader.appName, uploader.runId), remote[i].blob.segs)
       /\ \A app \in OtherAppNames, id \in OtherRunIds, rel \in OtherRelPaths :
             id # uploader.runId => blobOf(remoteRootOf(app, id), rel) # remote[i].blob

---------------------------------------------------------------------------
(* The publisher's progress (SpecMirror).                                  *)

\* "None" stands for the time before onExit constructs the uploader.
PublisherMoves ==
    { <<"None", "Idle">>,
      <<"Idle", "ContainerEnsuring">>, <<"Idle", "Failed">>,
      <<"ContainerEnsuring", "Uploading">>, <<"ContainerEnsuring", "Failed">>,
      <<"Uploading", "Uploading">>, <<"Uploading", "Done">>, <<"Uploading", "Failed">> }

RelativeToReportDir(f) == SubSeq(f, Len(uploader.localReportDir) + 1, Len(f))

IsSuffix(p, q) == Len(p) <= Len(q) /\ SubSeq(q, Len(q) - Len(p) + 1, Len(q)) = p

\* An upload of the file f has been started.
Uploaded(f) ==
    \E i \in Uploads :
       /\ IsSuffix(RelativeToReportDir(f), remote[i].blob.segs)
       /\ remote[i].body = disk.files[f]

\* C14: the publisher's state changes only along None -> Idle ->
\* ContainerEnsuring -> Uploading -> Done, or to Failed from a state before
\* Done; createIfNotExists is called in Idle only and is the first call; an
\* upload is started in Uploading only, which is entered only from
\* ContainerEnsuring when createIfNotExists has resolved; Done is entered
\* only with no upload in flight and every file below the report directory
\* uploaded; in Done and Failed the state stays and no call is made.
C14_PublisherStateMachine ==
    [][ /\ uploader'.state # uploader.state =>
              <<uploader.state, uploader'.state>> \in PublisherMoves
        /\ remote' # remote =>
              /\ Len(remote') = Len(remote) + 1
              /\ IsPrefix(remote, remote')
              /\ uploader.state \in {"Idle", "Uploading"}
              /\ (uploader.state = "Idle") = (remote'[Len(remote')].op = "createIfNotExists")
              /\ (uploader.state = "Idle") = (remote = <<>>)
              /\ (uploader.state = "Uploading") = (remote'[Len(remote')].op = "uploadData")
        /\ (uploader'.state = "Done" /\ uploader.state # "Done") =>
              /\ ~IsPresent(uploader.inFlight)
              /\ \A f \in LocalFiles : Uploaded(f)
        /\ uploader.state \in {"Done", "Failed"} =>
              (uploader' = uploader /\ remote' = remote) ]_vars

C14_Witness ==
    /\ pc = "done"
    /\ uploader.state = "Done"
    /\ remote[1].op = "createIfNotExists"
    /\ Cardinality(LocalFiles) = 5
    /\ Cardinality(Uploads) = 5
    /\ \E f \in LocalFiles : Len(RelativeToReportDir(f)) = 3

\* The step starts an upload.
UploadStarts ==
    /\ remote' # remote
    /\ remote'[Len(remote')].op = "uploadData"

\* C15: at most one upload is in flight; an upload is started only when
\* no upload is in flight, so every upload started before it, those of the
\* files of a subdirectory visited before included, has settled; and the
\* mirror is Done only with no upload in flight and every file below the
\* report directory uploaded.
C15_OneUploadInFlight ==
    [][ /\ Len(uploader'.inFlight) <= 1
        /\ UploadStarts =>
              /\ uploader.inFlight = <<>>
              /\ uploader'.inFlight = <<remote'[Len(remote')]>>
        /\ uploader'.state = "Done" =>
              /\ uploader'.inFlight = <<>>
              /\ \A f \in LocalFiles : Uploaded(f) ]_vars

C15_Witness ==
    /\ uploader.state = "Uploading"
    /\ Cardinality(Uploads) = 3
    /\ uploader.inFlight = <<remote[Len(remote)]>>
    /\ Len(remote[2].blob.segs) > Len(remote[4].blob.segs)
    /\ Len(uploader.stack) = 1

---------------------------------------------------------------------------
(* onTestEnd on attachment lists of every kind (SpecAttach).               *)

\* A second attachment without a path, and without a url.
Plain == [name |-> "log", contentType |-> "text/plain", path |-> Absent, url |-> Absent]

AttachmentLists ==
    { <<>>, <<Inline>>, <<Plain, Inline>>, <<Shot>>, <<Gone>>,
      <<Inline, Shot>>, <<Trace, Plain>>, <<Shot, Gone>>, <<Gone, Shot>>,
      <<Inline, Shot, Gone>>, <<Shot, Plain, Trace>> }

AttachResults == { ResultOf("failed", Some(list), Absent) : list \in AttachmentLists }

InitAttach ==
    /\ options \in [reportDir : {Absent, Some(<<"out", "report">>)},
                     reportFileName : {Absent}, resultFileName : {Absent},
                     containerName : {Absent}, connectionString : {Absent}]
    /\ hostApp = Absent
    /\ disk = StaleDisk
    /\ platformSep = "/"
    /\ InitReporter

NextAttach ==
    \/ Construct
    \/ /\ ~begun
       /\ onBegin([projects |-> <<Chromium>>], 3)
    \/ /\ begun /\ ~ended
       /\ \E result \in AttachResults : onTestEnd(FullTest, result)
    \/ /\ begun /\ ~ended
       /\ onEnd([status |-> "failed"], 40)

SpecAttach == InitAttach /\ [][NextAttach]_vars

\* The attachments of a result whose source file cannot be copied.
Uncopyable(result) ==
    { i \in DOMAIN Get(result.attachments) :
        /\ IsPresent(Get(result.attachments)[i].path)
        /\ Get(Get(result.attachments)[i].path) \notin DOMAIN disk.files }

\* C16: an onTestEnd whose result has an attachment that cannot be copied
\* throws, and leaves the entry list as it was; an onTestEnd all of whose
\* attachments can be copied returns.
C16_CopyFailurePropagates ==
    [][ \A result \in AttachResults :
          onTestEnd(FullTest, result) =>
             IF Uncopyable(result) # {}
             THEN raised' = "onTestEnd" /\ testResults' = testResults
             ELSE raised' = "" /\ Len(testResults') = Len(testResults) + 1 ]_vars

C16_Witness ==
    /\ raised = "onTestEnd"
    /\ Len(delivered) = 2
    /\ Len(testResults) = 1
    /\ Len(testResults[1].attachments) = 3
    /\ Len(copyLog) = 3
    /\ uuidsIssued = 5

WithPath(attachments) == { i \in DOMAIN attachments : IsPresent(attachments[i].path) }

\* C17: when onTestEnd returns, the entry appended has one attachment for
\* each attachment received, in the same order; one received without a path
\* is recorded as it was received, one with a path keeps its name and type;
\* exactly one copy has been made for each attachment with a path; and if no
\* attachment has a path the disk is as it was (no data directory created).
C17_PathlessPassThrough ==
    [][ \A result \in AttachResults :
          (onTestEnd(FullTest, result) /\ raised' = "") =>
             LET received == Get(result.attachments)
                 recorded == testResults'[Len(testResults')].attachments
             IN  /\ Len(recorded) = Len(received)
                 /\ \A i \in DOMAIN received :
                       IF IsPresent(received[i].path)
                       THEN /\ recorded[i].name = received[i].name
                            /\ recorded[i].contentType = received[i].contentType
                            /\ IsPresent(recorded[i].path)
                       ELSE recorded[i] = received[i]
                 /\ Len(copyLog') = Len(copyLog) + Cardinality(WithPath(received))
                 /\ WithPath(received) = {} => disk' = disk ]_vars

C17_Witness ==
    /\ Len(testResults) = 2
    /\ testResults[1].attachments = <<Plain, Inline>>
    /\ Len(copyLog) = 2
    /\ Len(testResults[2].attachments) = 3
    /\ testResults[2].attachments[2] = Plain
    /\ IsPresent(testResults[2].attachments[1].path)

---------------------------------------------------------------------------
(* The browser context of an entry (SpecBrowser).                          *)

\* The project of a configuration without `projects` has the empty name; a
\* project may also be given the name 'unknown'.
Unnamed == [Chromium EXCEPT !.name = ""]
Fallback == [Mobile EXCEPT !.name = "unknown"]

BrowserConfigs ==
    { [projects |-> <<Chromium>>], [projects |-> <<Chromium, Mobile>>],
      [projects |-> <<Unnamed>>], [projects |-> <<Chromium, Fallback>>] }

\* A test of the file suite a.spec.ts of the project suite `title`.
TestIn(title) ==
    [FullTest EXCEPT !.parent = Some([title |-> "a.spec.ts", parent |-> Some([title |-> title])])]

BrowserTests ==
    { TestIn(title) : title \in {"chromium", "mobile", "webkit", ""} }
    \cup { [FullTest EXCEPT !.parent = Absent],
           [FullTest EXCEPT !.parent = Some([title |-> "a.spec.ts", parent |-> Absent])] }

BrowserResults == { ResultOf("passed", Some(<<>>), Absent) }

InitBrowser ==
    /\ options \in [reportDir : {Absent}, reportFileName : {Absent}, resultFileName : {Absent},
                     containerName : {Absent}, connectionString : {Absent}]
    /\ hostApp = Absent
    /\ disk = StaleDisk
    /\ platformSep = "/"
    /\ InitReporter

NextBrowser ==
    \/ Construct
    \/ /\ ~begun
       /\ \E config \in BrowserConfigs : onBegin(config, 3)
    \/ /\ begun /\ ~ended
       /\ \E test \in BrowserTests, result \in BrowserResults : onTestEnd(test, result)
    \/ /\ begun /\ ~ended
       /\ onEnd([status |-> "passed"], 40)

SpecBrowser == InitBrowser /\ [][NextBrowser]_vars

\* The title of the project suite of a test, if the test has one.
ProjectSuiteTitle(test) ==
    IF IsPresent(test.parent) /\ IsPresent(Get(test.parent).parent)
    THEN Some(Get(Get(test.parent).parent).title)
    ELSE Absent

\* The context onBegin stored for the project of that name, or the empty
\* context when there is no such project or no such suite.
ContextStoredFor(test) ==
    IF IsPresent(ProjectSuiteTitle(test)) /\ Get(ProjectSuiteTitle(test)) \in DOMAIN browserInfo
    THEN Some(browserInfo[Get(ProjectSuiteTitle(test))])
    ELSE Absent

\* C18: the entry appended by onTestEnd records the context onBegin stored
\* for the project whose name is the title of the test's project suite, and
\* the empty context when no project has that name or the test has no such
\* suite; and no step other than onBegin changes the stored contexts.
C18_ContextOfTheProject ==
    [][ /\ \A test \in BrowserTests, result \in BrowserResults :
              (onTestEnd(test, result) /\ raised' = "") =>
                 testResults'[Len(testResults')].browser = ContextStoredFor(test)
        /\ (begun' = begun /\ pc # "new") => browserInfo' = browserInfo ]_vars

---------------------------------------------------------------------------
(* An onTestEnd that throws (SpecAttach).                                  *)

\* C19: an onTestEnd that throws because an attachment cannot be copied
\* leaves the five counters, the entry list and the files on the disk as
\* they were; and after every step the number of entries is the sum of the
\* five counters.
C19_AbortLeavesTheRunAsItWas ==
    [][ /\ \A result \in AttachResults :
              (onTestEnd(FullTest, result) /\ Uncopyable(result) # {}) =>
                 /\ counts' = counts
                 /\ testResults' = testResults
                 /\ DOMAIN disk'.files = DOMAIN disk.files
        /\ Len(testResults') = CountSum' ]_vars

---------------------------------------------------------------------------
(* The relocated attachments at the end of the run (Spec).                 *)

\* The paths of the attachments recorded with a path.
RelocatedPaths ==
    { Get(testResults[i].attachments[j].path) :
        <<i, j>> \in { <<i, j>> \in (DOMAIN testResults) \X (1..3) :
                          /\ j \in DOMAIN testResults[i].attachments
                          /\ IsPresent(testResults[i].attachments[j].path) } }

\* C20: at every moment from its insertion on, and so at onEnd and at
\* onExit, every path recorded for a relocated attachment names a file
\* directly in the data directory of the report directory, which still
\* holds the bytes copied into it; and when the publication is Done every
\* such file has been uploaded.
C20_RelocatedFilesRemain ==
    /\ \A p \in RelocatedPaths : IsChild(DataDir, p) /\ p \in DOMAIN disk.files
    /\ \A i \in DOMAIN copyLog :
          /\ copyLog[i].to \in DOMAIN disk.files
          /\ disk.files[copyLog[i].to] = disk0.files[copyLog[i].from]
    /\ uploader.state = "Done" => \A p \in RelocatedPaths : Uploaded(p)

C20_Witness ==
    /\ ended
    /\ pc = "done"
    /\ uploader.state = "Done"
    /\ Len(testResults) = 2
    /\ Cardinality(RelocatedPaths) = 3
    /\ \A p \in RelocatedPaths : Uploaded(p)
    /\ Cardinality(ReadDir(disk, DataDir)) = 3

====
